---- MODULE Spec2Model ----
(***************************************************************************)
(* i2shell: the USB-serial to I2C gateway of wtarreau/i2shell.             *)
(* The model follows the sketch with the to_print keep-alive and the '?'   *)
(* help command (the newest loop()); characters are their ASCII codes and  *)
(* every unsigned char is kept modulo 256.                                 *)
(***************************************************************************)
EXTENDS Integers, Sequences, FiniteSets, TLC

\* ------------------------------------------------------------ bounds
MaxQueue == 1       \* characters waiting in the SerialUSB receive queue
MaxRx == 2          \* bytes the bus makes available after one requestFrom
MaxDigits == 3      \* count digits typed after one R before the model stops
MaxSpaces == 1      \* optional spaces rendered in front of one token
MaxBytes == 2       \* payload bytes of a generated W ... P command

\* ------------------------------------------------------------ enum state
ST_CMD == 0
ST_ADDR == 1
ST_CMDW == 2
ST_CMDR == 3
ST_RECV == 4

\* ------------------------------------------------------------ characters
ch_LF == 10
ch_CR == 13
ch_SP == 32
ch_QM == 63
ch_0 == 48
ch_9 == 57
ch_A == 65
ch_F == 70
ch_P == 80
ch_R == 82
ch_S == 83
ch_W == 87
ch_a == 97
ch_z == 122
ch_bang == 33

Byte == 256

\* ------------------------------------------------------------ hex codec
\* the previous value not shifted: "*in = *in + c"
read_hex_no_shift(inp, c) ==
  IF c >= ch_0 /\ c <= ch_9 THEN <<1, (inp + (c - ch_0)) % Byte>>
  ELSE IF c >= ch_A /\ c <= ch_F THEN <<1, (inp + (c - (ch_A - 10))) % Byte>>
  ELSE IF c >= ch_a /\ c <= ch_z THEN <<1, (inp + (c - (ch_a - 10))) % Byte>>
  ELSE <<0, inp>>

\* the letters A-F taken from 0: "c -= 'A'"
read_hex_letters_from_0(inp, c) ==
  IF c >= ch_0 /\ c <= ch_9 THEN <<1, (inp * 16 + (c - ch_0)) % Byte>>
  ELSE IF c >= ch_A /\ c <= ch_F THEN <<1, (inp * 16 + (c - ch_A)) % Byte>>
  ELSE IF c >= ch_a /\ c <= ch_z THEN <<1, (inp * 16 + (c - (ch_a - 10))) % Byte>>
  ELSE <<0, inp>>

\* read_hex(&in, c): <<ret, new value of in>>
read_hex(inp, c) ==
  IF c >= ch_0 /\ c <= ch_9 THEN <<1, (inp * 16 + (c - ch_0)) % Byte>>
  ELSE IF c >= ch_A /\ c <= ch_F THEN <<1, (inp * 16 + (c - (ch_A - 10))) % Byte>>
  ELSE IF c >= ch_a /\ c <= ch_z THEN <<1, (inp * 16 + (c - (ch_a - 10))) % Byte>>
  ELSE <<0, inp>>

tohex(x) == IF x < 10 THEN x + ch_0 ELSE x - 10 + ch_A

\* the low nibble written first
print_hex_low_first(pfx, x, sfx) ==
  pfx \o <<tohex(x % 16), tohex(x \div 16)>> \o sfx

\* print_hex(pfx, x, sfx): the characters written to SerialUSB
print_hex(pfx, x, sfx) ==
  pfx \o <<tohex(x \div 16), tohex(x % 16)>> \o sfx

\* print_help(): the static text (NOHELP is not defined)
print_help ==
  <<  63, 32, 32, 32, 32, 32, 32, 32, 58, 32, 112, 114, 105, 110, 116, 32, 116, 104, 105, 115,
      32, 104, 101, 108, 112, 13, 10, 83, 60, 97, 100, 100, 114, 62, 32, 58, 32, 115, 101, 116,
      32, 73, 50, 67, 32, 97, 100, 100, 114, 32, 40, 104, 101, 120, 41, 13, 10, 87, 60, 98,
      121, 116, 101, 62, 42, 58, 32, 119, 114, 105, 116, 101, 32, 98, 121, 116, 101, 115, 32, 40,
      104, 101, 120, 41, 13, 10, 80, 32, 32, 32, 32, 32, 32, 32, 58, 32, 112, 117, 115, 104,
      32, 40, 101, 110, 100, 32, 111, 102, 32, 119, 114, 105, 116, 101, 41, 13, 10, 82, 60, 110,
      117, 109, 62, 32, 32, 58, 32, 114, 101, 97, 100, 32, 98, 121, 116, 101, 115, 32, 40, 104,
      101, 120, 41, 13, 10, 13, 10 >>

\* the character left as typed
to_upper_missing(l) == l

\* "turn to upper": (unsigned char)(l - 'a') <= 'z' - 'a'
to_upper(l) ==
  IF (l + Byte - ch_a) % Byte <= ch_z - ch_a THEN (l + Byte - (ch_a - ch_A)) % Byte ELSE l

\* ------------------------------------------------------------ bus calls
\* One call of the TinyWireM collaborator as it sees it: the operation, its
\* arguments, whether a transmission was open when it was called, and the
\* value it returned.
BusCall(op, x, y, open, st) == [op |-> op, x |-> x, y |-> y, open |-> open, st |-> st]

\* ------------------------------------------------------------ loop() body
\* A context c holds the globals (state, addr, data, digits, ret, to_print),
\* the collaborator's open flag, and what this call of loop() did so far:
\* calls (bus calls), wrote (characters written), path (case labels entered).
\* A response r holds what the bus will answer: ss (send, which loop() does
\* not look at), es (endTransmission), rs (requestFrom), rx (the bytes
\* available()/receive() hand out).

\* parse_cmd without "data = digits = 0"
parse_cmd_keeps_accumulator(c, l) ==
  LET c1 == [c EXCEPT !.path = Append(@, ST_CMD)]
  IN IF l = ch_S THEN [c1 EXCEPT !.state = ST_ADDR, !.addr = 0]
     ELSE IF l = ch_W THEN
       [c1 EXCEPT !.calls = Append(@, BusCall("beginTransmission", c1.addr, 0, c1.open, 0)),
                  !.open = TRUE,
                  !.state = ST_CMDW]
     ELSE IF l = ch_R THEN [c1 EXCEPT !.state = ST_CMDR]
     ELSE IF l = ch_QM THEN [c1 EXCEPT !.wrote = @ \o print_help, !.to_print = 0]
     ELSE c1

parse_cmd(c, l) ==
  LET c1 == [c EXCEPT !.data = 0, !.digits = 0, !.path = Append(@, ST_CMD)]
  IN IF l = ch_S THEN [c1 EXCEPT !.state = ST_ADDR, !.addr = 0]
     ELSE IF l = ch_W THEN
       [c1 EXCEPT !.calls = Append(@, BusCall("beginTransmission", c1.addr, 0, c1.open, 0)),
                  !.open = TRUE,
                  !.state = ST_CMDW]
     ELSE IF l = ch_R THEN [c1 EXCEPT !.state = ST_CMDR]
     ELSE IF l = ch_QM THEN [c1 EXCEPT !.wrote = @ \o print_help, !.to_print = 0]
     ELSE c1

\* P in ST_ADDR dropped like a space, the address kept
case_ADDR_keeps_on_P(c, l) ==
  LET c1 == [c EXCEPT !.addr = read_hex(c.addr, l)[2], !.path = Append(@, ST_ADDR)]
      c2 == IF l = ch_S
            THEN [c1 EXCEPT !.state = ST_ADDR, !.addr = 0]
            ELSE c1
  IN IF l # ch_W /\ l # ch_R /\ l # ch_QM
     THEN c2
     ELSE parse_cmd([c2 EXCEPT !.state = ST_CMD], l)

case_ADDR(c, l) ==
  LET c1 == [c EXCEPT !.addr = read_hex(c.addr, l)[2], !.path = Append(@, ST_ADDR)]
      c2 == IF l = ch_S \/ l = ch_P
            THEN [c1 EXCEPT !.state = ST_ADDR, !.addr = 0]
            ELSE c1
  IN IF l # ch_W /\ l # ch_R /\ l # ch_QM
     THEN c2
     ELSE parse_cmd([c2 EXCEPT !.state = ST_CMD], l)

\* a byte sent only once it has two digits
cmdw_flushes_pairs_only(dg, hexret) == dg = 2

\* ST_CMDW: "if ((digits && !ret) || digits == 2)"
cmdw_flushes(dg, hexret) == (dg # 0 /\ hexret = 0) \/ dg = 2

\* a W inside a write taken for a new command, like S and R
cmdw_ends_also_on_W(hexret, l) == hexret = 0 /\ l # ch_SP

\* ST_CMDW: "if (!ret && l != ' ' && l != 'W')"
cmdw_ends(hexret, l) == hexret = 0 /\ l # ch_SP /\ l # ch_W

\* the write left without endTransmission(): the transmission stays open
end_write_no_end(c, es) == [c EXCEPT !.state = ST_CMD]

\* the W! token printed and the filler left armed (as before to_print existed)
end_write_keeps_filler(c, es) ==
  LET c1 == [c EXCEPT !.ret = es,
                      !.calls = Append(@, BusCall("endTransmission", 0, 0, c.open, es)),
                      !.open = FALSE]
      c2 == IF es # 0
            THEN [c1 EXCEPT !.wrote = @ \o print_hex(<<ch_W, ch_bang>>, es, <<ch_LF>>)]
            ELSE c1
  IN [c2 EXCEPT !.state = ST_CMD]

\* a failed endTransmission() leaves the parser in the write
end_write_stays_on_error(c, es) ==
  LET c1 == [c EXCEPT !.ret = es,
                      !.calls = Append(@, BusCall("endTransmission", 0, 0, c.open, es)),
                      !.open = FALSE]
      c2 == IF es # 0
            THEN [c1 EXCEPT !.wrote = @ \o print_hex(<<ch_W, ch_bang>>, es, <<ch_LF>>),
                            !.to_print = 0]
            ELSE c1
  IN [c2 EXCEPT !.state = IF es = 0 THEN ST_CMD ELSE c.state]

\* ST_CMDW: endTransmission(), the W! token, state = ST_CMD
end_write(c, es) ==
  LET c1 == [c EXCEPT !.ret = es,
                      !.calls = Append(@, BusCall("endTransmission", 0, 0, c.open, es)),
                      !.open = FALSE]
      c2 == IF es # 0
            THEN [c1 EXCEPT !.wrote = @ \o print_hex(<<ch_W, ch_bang>>, es, <<ch_LF>>),
                            !.to_print = 0]
            ELSE c1
  IN [c2 EXCEPT !.state = ST_CMD]

case_CMDW(c, l, r) ==
  LET h == read_hex(c.data, l)
      dg == (c.digits + h[1]) % Byte
      c1 == [c EXCEPT !.ret = h[1], !.data = h[2], !.digits = dg,
                      !.path = Append(@, ST_CMDW)]
      c2 == IF cmdw_flushes(dg, h[1])
            THEN [c1 EXCEPT !.calls = Append(@, BusCall("send", c1.data, 0, c1.open, r.ss)),
                            !.data = 0, !.digits = 0]
            ELSE c1
  IN IF cmdw_ends(h[1], l)
     THEN parse_cmd(end_write(c2, r.es), l)
     ELSE c2

RECURSIVE drain(_, _)
\* while (TinyWireM.available()) { data = TinyWireM.receive(); print_hex(NULL, data, " "); }
drain(c, rx) ==
  IF rx = <<>> THEN c
  ELSE drain([c EXCEPT !.data = Head(rx),
                       !.calls = Append(@, BusCall("receive", 0, 0, c.open, Head(rx))),
                       !.wrote = @ \o print_hex(<<>>, Head(rx), <<ch_SP>>)],
             Tail(rx))

\* the read's line not ended (as before the keep-alive was added)
recv_line_no_eol(c, rx) ==
  LET c1 == drain([c EXCEPT !.path = Append(@, ST_RECV)], rx)
  IN [c1 EXCEPT !.state = ST_CMD]

\* the parser left in ST_RECV, to drain again at the next character
recv_line_waits(c, rx) ==
  LET c1 == drain([c EXCEPT !.path = Append(@, ST_RECV)], rx)
  IN [c1 EXCEPT !.wrote = @ \o <<ch_CR, ch_LF>>, !.to_print = 0]

\* recv_now: the drain, the line end, to_print = 0, state = ST_CMD
recv_line(c, rx) ==
  LET c1 == drain([c EXCEPT !.path = Append(@, ST_RECV)], rx)
  IN [c1 EXCEPT !.wrote = @ \o <<ch_CR, ch_LF>>, !.to_print = 0, !.state = ST_CMD]

\* the character dispatched from ST_CMD a second time
recv_now_twice(c, l, rx) == parse_cmd(parse_cmd(recv_line(c, rx), l), l)

recv_now(c, l, rx) == parse_cmd(recv_line(c, rx), l)

\* The bytes the bus holds after requestFrom(addr, n): at most n of them.
Available(rx, n) == SubSeq(rx, 1, IF Len(rx) < n THEN Len(rx) ELSE n)

\* ST_CMDR: "if (!ret && digits)"
cmdr_requests(dg, hexret) == hexret = 0 /\ dg # 0

\* ST_CMDR: "if (!ret && l != ' ' && l != '\n')"
cmdr_abandons(hexret, l) == hexret = 0 /\ l # ch_SP /\ l # ch_LF

\* ST_CMDR: requestFrom(addr, data), the R! token, state = ST_RECV
request_read(c, rs) ==
  LET c1 == [c EXCEPT !.ret = rs,
                      !.calls = Append(@, BusCall("requestFrom", c.addr, c.data, c.open, rs))]
      c2 == IF rs # 0
            THEN [c1 EXCEPT !.wrote = @ \o print_hex(<<ch_R, ch_bang>>, rs, <<ch_LF>>),
                            !.to_print = 0]
            ELSE c1
  IN [c2 EXCEPT !.data = 0, !.digits = 0, !.state = ST_RECV]

case_CMDR(c, l, r) ==
  LET h == read_hex(c.data, l)
      dg == (c.digits + h[1]) % Byte
      c1 == [c EXCEPT !.ret = h[1], !.data = h[2], !.digits = dg,
                      !.path = Append(@, ST_CMDR)]
  IN IF cmdr_requests(dg, h[1])
     THEN recv_now(request_read(c1, r.rs), l, Available(r.rx, c1.data))
     ELSE IF cmdr_abandons(h[1], l)
     THEN parse_cmd([c1 EXCEPT !.state = ST_CMD], l)
     ELSE c1

\* switch (state)
dispatch(c, l, r) ==
  IF c.state = ST_CMD THEN parse_cmd(c, l)
  ELSE IF c.state = ST_ADDR THEN case_ADDR(c, l)
  ELSE IF c.state = ST_CMDW THEN case_CMDW(c, l, r)
  ELSE IF c.state = ST_CMDR THEN case_CMDR(c, l, r)
  ELSE recv_now(c, l, r.rx)

\* the filler a space after every character, line ends included
loop_char_fills_space(c, raw, r) ==
  LET c0 == [c EXCEPT !.to_print = ch_SP, !.calls = <<>>, !.wrote = <<>>, !.path = <<>>]
  IN dispatch(c0, to_upper(raw), r)

\* loop() once a character raw was read from SerialUSB
loop_char(c, raw, r) ==
  LET c0 == [c EXCEPT !.to_print = IF raw = ch_CR \/ raw = ch_LF THEN ch_CR ELSE ch_SP,
                      !.calls = <<>>, !.wrote = <<>>, !.path = <<>>]
  IN dispatch(c0, to_upper(raw), r)

\* the filler written and left armed
loop_idle_keeps_armed(c) ==
  [c EXCEPT !.wrote = IF c.to_print # 0 THEN <<c.to_print>> ELSE <<>>,
            !.calls = <<>>, !.path = <<>>]

\* loop() when SerialUSB.available() < 1
loop_idle(c) ==
  [c EXCEPT !.wrote = IF c.to_print # 0 THEN <<c.to_print>> ELSE <<>>,
            !.to_print = 0, !.calls = <<>>, !.path = <<>>]

\* ------------------------------------------------------------ state
VARIABLES
  state, addr, data, digits, ret, to_print,  \* the sketch's globals
  open,       \* TinyWireM: a transmission is open (begun, not yet ended)
  avail,      \* SerialUSB.available(): characters received and not yet read
  l,          \* the character the last loop() read (0: none)
  calls,      \* the bus calls the last loop() made
  wrote,      \* the characters the last loop() wrote to SerialUSB
  path,       \* the case labels the last loop() entered, in order
  script0,    \* scripted runs: the whole input of the run
  script,     \* scripted runs: the part of it loop() has not read yet
  bus,        \* scripted runs: every bus call so far
  out,        \* scripted runs: every protocol character written so far
  echo,       \* scripted runs: every keep-alive filler written so far
  shadow,     \* paired runs: the context of the second run
  token       \* paired runs: the token fed last: a hex number? spelled differently by the second run?

globals == <<state, addr, data, digits, ret, to_print>>
seen == <<l, calls, wrote, path>>
hist == <<script0, script, bus, out, echo>>
vars == <<state, addr, data, digits, ret, to_print, open, avail, l, calls, wrote, path,
          script0, script, bus, out, echo, shadow, token>>
pair == <<shadow, token>>

Cur ==
  [state |-> state, addr |-> addr, data |-> data, digits |-> digits, ret |-> ret,
   to_print |-> to_print, open |-> open, calls |-> calls, wrote |-> wrote, path |-> path]

Become(c) ==
  /\ state' = c.state /\ addr' = c.addr /\ data' = c.data /\ digits' = c.digits
  /\ ret' = c.ret /\ to_print' = c.to_print /\ open' = c.open
  /\ calls' = c.calls /\ wrote' = c.wrote /\ path' = c.path

NoToken == [hex |-> FALSE, varied |-> FALSE]

\* the globals' initializers, and setup()
Reset ==
  [state |-> ST_CMD, addr |-> 0, data |-> 0, digits |-> 0, ret |-> 0,
   to_print |-> 0, open |-> FALSE, calls |-> <<>>, wrote |-> <<>>, path |-> <<>>]

\* ------------------------------------------------------------ environment
\* What the host may type: the command letters, hex digits in both cases,
\* delimiters, line ends, a lower-case command and a letter that means nothing.
Alphabet ==
  {ch_S, ch_W, ch_R, ch_P, ch_QM, ch_SP, ch_LF, ch_CR, ch_0, ch_A, ch_a,
   53, 119, 103}   \* '5', 'w', 'g'

Status == {0, 2}
RxBytes == {0, 165}

RECURSIVE SeqsUpTo(_, _)
SeqsUpTo(S, n) ==
  IF n = 0 THEN {<<>>}
  ELSE LET shorter == SeqsUpTo(S, n - 1)
       IN shorter \cup {Append(q, x) : q \in {p \in shorter : Len(p) = n - 1}, x \in S}

\* What the bus may answer to the calls loop() can make from state st: the
\* status of send and of endTransmission (only called in ST_CMDW), the status of
\* requestFrom and the bytes then available (only in ST_CMDR and ST_RECV).
RespFor(st) ==
  [ss : IF st = ST_CMDW THEN Status ELSE {0},
   es : IF st = ST_CMDW THEN Status ELSE {0},
   rs : IF st = ST_CMDR THEN Status ELSE {0},
   rx : IF st = ST_CMDR \/ st = ST_RECV THEN SeqsUpTo(RxBytes, MaxRx) ELSE {<<>>}]

IsHexRaw(raw) == read_hex(0, to_upper(raw))[1] = 1

\* ------------------------------------------------------------ actions
InitOf(c) ==
  /\ state = c.state /\ addr = c.addr /\ data = c.data /\ digits = c.digits
  /\ ret = c.ret /\ to_print = c.to_print /\ open = c.open
  /\ calls = c.calls /\ wrote = c.wrote /\ path = c.path
  /\ avail = 0 /\ l = 0

Init ==
  /\ InitOf(Reset)
  /\ script0 = <<>> /\ script = <<>> /\ bus = <<>> /\ out = <<>> /\ echo = <<>>
  /\ shadow = Reset /\ token = NoToken

\* The model stops a run that types more than MaxDigits count digits after
\* one R (digits is an unsigned char and would need 256 of them to wrap).
WithinDigits(raw) ==
  ~(state = ST_CMDR /\ digits >= MaxDigits /\ IsHexRaw(raw))

\* the host sends one character; what it is shows when loop() reads it
Arrive ==
  /\ avail < MaxQueue
  /\ avail' = avail + 1
  /\ UNCHANGED <<globals, open, seen, hist, pair>>

\* loop() with nothing to read: the keep-alive flush
LoopIdle ==
  /\ avail = 0
  /\ Become(loop_idle(Cur))
  /\ l' = 0
  /\ UNCHANGED <<avail, hist, pair>>

\* loop() reading and processing one character
LoopRead ==
  /\ avail > 0
  /\ \E raw \in Alphabet :
       /\ WithinDigits(raw)
       /\ \E r \in RespFor(state) : Become(loop_char(Cur, raw, r))
       /\ l' = raw
  /\ avail' = avail - 1
  /\ UNCHANGED <<hist, pair>>

Next ==
  \/ Arrive
  \/ LoopIdle
  \/ LoopRead

Spec == Init /\ [][Next]_vars

\* ------------------------------------------------------------ keep-alive runs
\* loop() is called again and again (the Arduino core's main loop); nothing
\* is assumed about when the host sends. The host types from a smaller set:
\* a space, a line end, '?', R, W and the digit 5.
KeepAliveKeys == {ch_SP, ch_LF, ch_QM, ch_R, ch_W, 53}

LoopReadLive ==
  /\ avail > 0
  /\ \E raw \in KeepAliveKeys :
       /\ WithinDigits(raw)
       /\ \E r \in RespFor(state) : Become(loop_char(Cur, raw, r))
       /\ l' = raw
  /\ avail' = avail - 1
  /\ UNCHANGED <<hist, pair>>

NextLive ==
  \/ Arrive
  \/ LoopIdle
  \/ LoopReadLive

Loop == LoopIdle \/ LoopReadLive
SpecLive == Init /\ [][NextLive]_vars /\ WF_vars(Loop)

\* ------------------------------------------------------------ read_hex alone
\* read_hex(&data, l) called on its own: any 7-bit character l against a few
\* previous values of data. avail = 1 while the character waits to be decoded.
HexInputs == 0..127
HexStarts == {0, 1, 10, 15, 255}

InitHex ==
  /\ InitOf(Reset)
  /\ script0 = <<>> /\ script = <<>> /\ bus = <<>> /\ out = <<>> /\ echo = <<>>
  /\ shadow = Reset /\ token = NoToken

HexOffer ==
  /\ avail = 0
  /\ l' \in HexInputs /\ data' \in HexStarts /\ ret' = 0
  /\ avail' = 1
  /\ UNCHANGED <<state, addr, digits, to_print, open, calls, wrote, path, hist, pair>>

HexDecode ==
  /\ avail = 1
  /\ ret' = read_hex(data, l)[1]
  /\ data' = read_hex(data, l)[2]
  /\ avail' = 0
  /\ UNCHANGED <<state, addr, digits, to_print, open, l, calls, wrote, path, hist, pair>>

NextHex ==
  \/ HexOffer
  \/ HexDecode

SpecHex == InitHex /\ [][NextHex]_vars

\* ------------------------------------------------------------ scripted runs
\* A scripted run feeds one fixed input and keeps the whole history: bus
\* (every bus call), out (every protocol character) and echo (every filler).
\* A script is [id, text, a, bytes]: text is what the host sends; a and bytes
\* are the address and the payload bytes the script's author meant.

MaxFill == 7        \* longest run of equal bytes the bus answers a read with

Script(id, text, a, bytes) == [id |-> id, text |-> text, a |-> a, bytes |-> bytes]

FixedScripts ==
  { Script("S68W0R7", <<83, 54, 56, 87, 48, 82, 55>>, 104, <<0>>),
    Script("S68W0R7+LF", <<83, 54, 56, 87, 48, 82, 55, 10>>, 104, <<0>>),
    Script("S68W0R7+SP", <<83, 54, 56, 87, 48, 82, 55, 32>>, 104, <<0>>),
    Script("S68W0 0P,S68W0R7",
           <<83, 54, 56, 87, 48, 32, 48, 80, 83, 54, 56, 87, 48, 82, 55>>, 104, <<0, 0, 0>>),
    Script("S68W0 0P,S68W0R7+LF",
           <<83, 54, 56, 87, 48, 32, 48, 80, 83, 54, 56, 87, 48, 82, 55, 10>>, 104, <<0, 0, 0>>),
    Script("S68W0 0P+LF,S68W0R7+LF",
           <<83, 54, 56, 87, 48, 32, 48, 80, 10, 83, 54, 56, 87, 48, 82, 55, 10>>, 104, <<0, 0, 0>>),
    Script("W3AR1", <<87, 51, 65, 82, 49>>, 0, <<58>>),
    Script("W3AR1+LF", <<87, 51, 65, 82, 49, 10>>, 0, <<58>>) }

\* [S68] W <pending digits> x: a write interrupted by the character x
Prefixes == { [text |-> <<>>, a |-> 0], [text |-> <<83, 54, 56>>, a |-> 104] }
Pending ==
  { [text |-> <<>>, bytes |-> <<>>],                  \* ""
    [text |-> <<53>>, bytes |-> <<5>>],               \* "5"
    [text |-> <<97>>, bytes |-> <<10>>],              \* "a"
    [text |-> <<51, 65>>, bytes |-> <<58>>],          \* "3A"
    [text |-> <<51, 65, 53>>, bytes |-> <<58, 5>>] }  \* "3A5"
\* ' ', P, p, S, W, w, R, ?, LF, CR, G, g
Terminators == {32, 80, 112, 83, 87, 119, 82, 63, 10, 13, 71, 103}
TermScripts ==
  { Script("term", p.text \o <<ch_W>> \o q.text \o <<x>>, p.a, q.bytes) :
      p \in Prefixes, q \in Pending, x \in Terminators }

\* [S68] W b1 b2 ... bn P: every byte as two hex digits, in either case,
\* with or without a space in front of every token
PayloadBytes == {5, 54, 76}
LowerHex(ch) == IF ch >= ch_A /\ ch <= ch_F THEN ch + (ch_a - ch_A) ELSE ch
HexPair(b, lc) ==
  IF lc THEN <<LowerHex(tohex(b \div 16)), LowerHex(tohex(b % 16))>>
  ELSE <<tohex(b \div 16), tohex(b % 16)>>
RECURSIVE Payload(_, _, _)
Payload(bs, sp, lc) ==
  IF bs = <<>> THEN <<>>
  ELSE sp \o HexPair(Head(bs), lc) \o Payload(Tail(bs), sp, lc)
WriteScripts ==
  { Script("write",
           p.text \o <<ch_W>> \o Payload(bs, sp, lc) \o sp \o <<IF lc THEN 112 ELSE ch_P>>,
           p.a, bs) :
      p \in Prefixes, bs \in SeqsUpTo(PayloadBytes, MaxBytes),
      sp \in {<<>>, <<ch_SP>>}, lc \in BOOLEAN }

Scripts == FixedScripts \cup TermScripts \cup WriteScripts

\* In a scripted run the bus may also answer a read with up to MaxFill equal
\* bytes (a register bank that reads all zero, for one); send's status, which
\* loop() never reads, stays 0.
Fill(b, n) == [i \in 1..n |-> b]
RespForScript(st) ==
  [ss : {0},
   es : IF st = ST_CMDW THEN Status ELSE {0},
   rs : IF st = ST_CMDR THEN Status ELSE {0},
   rx : IF st = ST_CMDR \/ st = ST_RECV
        THEN SeqsUpTo(RxBytes, MaxRx) \cup {Fill(b, n) : b \in RxBytes, n \in 0..MaxFill}
        ELSE {<<>>}]

InitScript ==
  /\ InitOf(Reset)
  /\ script0 \in Scripts /\ script = script0.text
  /\ bus = <<>> /\ out = <<>> /\ echo = <<>>
  /\ shadow = Reset /\ token = NoToken

ArriveScript ==
  /\ avail < MaxQueue
  /\ avail < Len(script)
  /\ avail' = avail + 1
  /\ UNCHANGED <<globals, open, seen, hist, pair>>

LoopIdleScript ==
  /\ avail = 0
  /\ Become(loop_idle(Cur))
  /\ l' = 0
  /\ echo' = echo \o loop_idle(Cur).wrote
  /\ UNCHANGED <<avail, script0, script, bus, out, pair>>

LoopReadScript ==
  /\ avail > 0
  /\ \E r \in RespForScript(state) :
       LET c == loop_char(Cur, Head(script), r)
       IN /\ Become(c)
          /\ bus' = bus \o c.calls
          /\ out' = out \o c.wrote
  /\ l' = Head(script)
  /\ script' = Tail(script)
  /\ avail' = avail - 1
  /\ UNCHANGED <<script0, echo, pair>>

NextScript ==
  \/ ArriveScript
  \/ LoopIdleScript
  \/ LoopReadScript

SpecScript == InitScript /\ [][NextScript]_vars

\* ------------------------------------------------------------ paired runs: bus faults
\* Two runs read the same characters from the same reset state and the bus
\* hands both the same bytes. In the first run send, endTransmission and
\* requestFrom always return 0; in the second (shadow) they return statuses
\* of the bus's choice.
NoFault(r) == [r EXCEPT !.ss = 0, !.es = 0, !.rs = 0]

LoopIdleFault ==
  /\ avail = 0
  /\ Become(loop_idle(Cur))
  /\ shadow' = loop_idle(shadow)
  /\ l' = 0
  /\ UNCHANGED <<avail, hist, token>>

LoopReadFault ==
  /\ avail > 0
  /\ \E raw \in Alphabet :
       /\ WithinDigits(raw)
       /\ \E r \in RespFor(state) \cup RespFor(shadow.state) :
            /\ Become(loop_char(Cur, raw, NoFault(r)))
            /\ shadow' = loop_char(shadow, raw, r)
       /\ l' = raw
  /\ avail' = avail - 1
  /\ UNCHANGED <<hist, token>>

NextFault ==
  \/ Arrive
  \/ LoopIdleFault
  \/ LoopReadFault

SpecFault == Init /\ [][NextFault]_vars

\* ------------------------------------------------------------ paired runs: spelling
\* Two runs read the same tokens (a command letter, a line end, a letter that
\* means nothing, or a hex number). The first run spells each token in upper
\* case with no space in front of it, except the one space that keeps two hex
\* numbers apart; the second (shadow) puts up to MaxSpaces spaces in front of
\* it and may spell it in lower case. The bus answers both runs alike. Between
\* two tokens the host may pause, and both runs call loop() with nothing to read.
Tok(text, hex) == [text |-> text, hex |-> hex]
Tokens ==
  { Tok(<<ch_S>>, FALSE), Tok(<<ch_W>>, FALSE), Tok(<<ch_R>>, FALSE), Tok(<<ch_P>>, FALSE),
    Tok(<<ch_QM>>, FALSE), Tok(<<ch_LF>>, FALSE), Tok(<<71>>, FALSE),          \* 'G'
    Tok(<<55>>, TRUE), Tok(<<54, 56>>, TRUE), Tok(<<52, 67>>, TRUE) }         \* 7, 68, 4C

LowerCase(ch) == IF ch >= ch_A /\ ch <= 90 THEN ch + (ch_a - ch_A) ELSE ch
HasLetter(text) == \E i \in 1..Len(text) : LowerCase(text[i]) # text[i]
Spell(t, n, lc) ==
  [i \in 1..n |-> ch_SP] \o (IF lc THEN [i \in 1..Len(t.text) |-> LowerCase(t.text[i])] ELSE t.text)

\* loop() once for each character of text, keeping all it did
RECURSIVE run_text(_, _, _)
run_text(c, text, r) ==
  IF text = <<>> THEN c
  ELSE LET d == loop_char(c, Head(text), r)
       IN run_text([d EXCEPT !.calls = c.calls \o @, !.wrote = c.wrote \o @,
                             !.path = c.path \o @],
                   Tail(text), r)

Fresh(c) == [c EXCEPT !.calls = <<>>, !.wrote = <<>>, !.path = <<>>]

\* What the bus may answer while c reads one token: send's status, which
\* loop() never reads, stays 0, and with no count digit typed yet no
\* requestFrom can be issued before the token ends.
RespSpell(c) ==
  {r \in RespFor(c.state) : r.ss = 0 /\ (c.digits = 0 => r.rs = 0 /\ r.rx = <<>>)}

FeedToken ==
  \E t \in Tokens :
    LET gap == IF token.hex /\ t.hex THEN 1 ELSE 0
    IN \E n \in gap..MaxSpaces, lc \in (IF HasLetter(t.text) THEN BOOLEAN ELSE {FALSE}),
          r \in RespSpell(Cur) \cup RespSpell(shadow) :
         /\ Become(run_text(Fresh(Cur), Spell(t, gap, FALSE), r))
         /\ shadow' = run_text(Fresh(shadow), Spell(t, n, lc), r)
         /\ token' = [hex |-> t.hex, varied |-> n > gap \/ lc]
         /\ l' = t.text[Len(t.text)]
         /\ UNCHANGED <<avail, hist>>

PauseBoth ==
  /\ Become(loop_idle(Cur))
  /\ shadow' = loop_idle(shadow)
  /\ l' = 0
  /\ UNCHANGED <<avail, hist, token>>

NextSpell ==
  \/ FeedToken
  \/ PauseBoth

SpecSpell == Init /\ [][NextSpell]_vars

\* ------------------------------------------------------------ long counts
\* As Spec, but one count may go on past MaxDigits digits: a count that
\* reads 55 at address 0 may be continued with the digit 5, again and again,
\* until digits (an unsigned char) is back to 0 after 256 of them.
WithinWrap(raw) ==
  (state = ST_CMDR /\ digits >= MaxDigits)
    => IF IsHexRaw(raw) THEN raw = 53 /\ addr = 0 /\ data = 85
       ELSE digits = MaxDigits

LoopReadWrap ==
  /\ avail > 0
  /\ \E raw \in Alphabet :
       /\ WithinWrap(raw)
       /\ \E r \in RespFor(state) : Become(loop_char(Cur, raw, r))
       /\ l' = raw
  /\ avail' = avail - 1
  /\ UNCHANGED <<hist, pair>>

NextWrap ==
  \/ Arrive
  \/ LoopIdle
  \/ LoopReadWrap

SpecWrap == Init /\ [][NextWrap]_vars

\* ------------------------------------------------------------ reading a trace
\* the begin / send / end / request calls of a trace, as <<op, x, y>>
IsCmd(k) == k.op # "receive"
Cmds(b) == LET f == SelectSeq(b, IsCmd) IN [i \in 1..Len(f) |-> <<f[i].op, f[i].x, f[i].y>>]
Ops(b) == [i \in 1..Len(b) |-> b[i].op]
Count(b, op) == Cardinality({i \in 1..Len(b) : b[i].op = op})
\* the bytes received, in order
IsReceive(k) == k.op = "receive"
Received(b) == LET f == SelectSeq(b, IsReceive) IN [i \in 1..Len(f) |-> f[i].st]
IsSend(k) == k.op = "send"
Sent(b) == LET f == SelectSeq(b, IsSend) IN [i \in 1..Len(f) |-> f[i].x]
Begin(a) == <<"beginTransmission", a, 0>>
Send(b) == <<"send", b, 0>>
End == <<"endTransmission", 0, 0>>
Request(a, n) == <<"requestFrom", a, n>>
Finished == script = <<>>
Ran(id) == script0.id = id /\ script = <<>>

Done(t) == script0.text = t /\ script = <<>>
Read == Len(script0.text) - Len(script)

\* ------------------------------------------------------------ C1
\* C1: the bus calls are well bracketed. TinyWireM's open flag is set by
\* beginTransmission and cleared by endTransmission, so over the whole run:
\* beginTransmission is only called with no transmission open, endTransmission
\* and send only with one open, requestFrom only with none open.
C1_WellBracketed ==
  \A i \in 1..Len(calls) :
    /\ calls[i].op = "beginTransmission" => ~calls[i].open
    /\ calls[i].op = "endTransmission" => calls[i].open
    /\ calls[i].op = "send" => calls[i].open
    /\ calls[i].op = "requestFrom" => ~calls[i].open

\* A loop() that issues a read and then, dispatching the same W against
\* ST_CMD, begins a write: requestFrom with nothing open, then begin.
C1_Witness ==
  /\ Len(calls) >= 2
  /\ calls[1].op = "requestFrom"
  /\ calls[Len(calls)].op = "beginTransmission"
  /\ open

C3_Original ==
  Ran("S68W0R7") => Cmds(bus) = <<Begin(104), Send(0), End, Request(104, 7)>>

\* C3 amended: the four calls are seen, in this order, once a character that
\* is no hex digit (a line end, a space) follows S68W0R7; after S68W0R7 alone
\* the first three are seen and the read waits in ST_CMDR with count 7.
\* beginTransmission is not called before S, 6, 8 and W were read.
C3_Sequence ==
  /\ (Ran("S68W0R7+LF") \/ Ran("S68W0R7+SP"))
       => Cmds(bus) = <<Begin(104), Send(0), End, Request(104, 7)>>
  /\ Ran("S68W0R7")
       => /\ Cmds(bus) = <<Begin(104), Send(0), End>>
          /\ state = ST_CMDR /\ digits = 1 /\ data = 7 /\ addr = 104
  /\ (script0.id \in {"S68W0R7", "S68W0R7+LF", "S68W0R7+SP"} /\ bus # <<>>)
       => Read >= 4 /\ Cmds(<<bus[1]>>) = <<Begin(104)>>

C3_Witness ==
  /\ Ran("S68W0R7+LF")
  /\ Cmds(bus) = <<Begin(104), Send(0), End, Request(104, 7)>>

\* ------------------------------------------------------------ C4
\* C4 as stated: two inputs that differ only in the case of their letters and
\* in the spaces in front of their tokens make the same bus calls, with the
\* same arguments, and the same characters are written to SerialUSB.
C4_Original ==
  /\ Cmds(calls) = Cmds(shadow.calls)
  /\ wrote = shadow.wrote

\* C4 amended: the two inputs make the same bus calls (same arguments, same
\* answers, same order), leave the parser in the same state with the same
\* address, and every loop() that reads a token writes the same characters
\* (help text, R!/W! tokens, read dumps). The keep-alive filler written by a
\* loop() that finds nothing to read is not part of that and may differ.
C4_SpellingInsensitive ==
  /\ state = shadow.state /\ addr = shadow.addr
  /\ data = shadow.data /\ digits = shadow.digits /\ open = shadow.open
  /\ calls = shadow.calls
  /\ l # 0 => wrote = shadow.wrote

\* " w" against "W" after S68 R7: both runs issue the read of 7 at 0x68, write
\* the same dump and begin a write
C4_Witness ==
  /\ token.varied /\ l = ch_W /\ path # shadow.path
  /\ Cmds(calls) = <<Request(104, 7), Begin(104)>>
  /\ Cmds(shadow.calls) = <<Request(104, 7), Begin(104)>>
  /\ Len(Received(calls)) = MaxRx
  /\ wrote # <<>> /\ wrote = shadow.wrote

\* ------------------------------------------------------------ C5
Sends(bs) == [i \in 1..Len(bs) |-> Send(bs[i])]

\* C5: W b1 ... bn P is one transaction: one beginTransmission at the address
\* in force, send(b1) ... send(bn) in input order with bi = 16 * first digit
\* + second digit, and one endTransmission, issued by P and not before.
C5_SingleTransaction ==
  script0.id = "write" =>
    /\ Finished => Cmds(bus) = <<Begin(script0.a)>> \o Sends(script0.bytes) \o <<End>>
    /\ ~Finished => Count(bus, "endTransmission") = 0
    /\ Count(bus, "beginTransmission") <= 1
    /\ Len(Sent(bus)) <= Len(script0.bytes)
    /\ Sent(bus) = SubSeq(script0.bytes, 1, Len(Sent(bus)))

C5_Witness ==
  /\ script0.id = "write" /\ Finished
  /\ script0.bytes = <<54, 76>> /\ script0.a = 104
  /\ Cmds(bus) = <<Begin(104), Send(54), Send(76), End>>
  /\ l = 112

\* ------------------------------------------------------------ C6
\* C6: in ST_CMDW one hex digit d followed by a character that is no hex digit
\* is sent as the one byte 0x0d, by that character and not before; a character
\* that is no hex digit sends nothing when no digit is pending; W5P is
\* begin, send(0x05), end.
C6_OddDigitFlush ==
  /\ (script0.id = "term" /\ Finished) => Sent(bus) = script0.bytes
  /\ (script0.id = "term" /\ ~Finished)
       => \A i \in 1..Len(Sent(bus)) : Sent(bus)[i] = script0.bytes[i] /\ Sent(bus)[i] >= 16
  /\ Done(<<87, 53, 80>>) => Cmds(bus) = <<Begin(0), Send(5), End>>

C6_Witness ==
  /\ Done(<<87, 53, 80>>)
  /\ Cmds(calls) = <<Send(5), End>>
  /\ data = 0 /\ digits = 0

\* ------------------------------------------------------------ C7
ZeroBank(b) == \A i \in 1..Len(b) : b[i].st = 0   \* every status, every byte read
Zeros22 ==
  <<48, 48, 32, 48, 48, 32, 48, 48, 32, 48, 48, 32, 48, 48, 32, 48, 48, 32, 48, 48, 13, 10>>
Zeros23 ==
  <<48, 48, 32, 48, 48, 32, 48, 48, 32, 48, 48, 32, 48, 48, 32, 48, 48, 32, 48, 48, 32, 13, 10>>

\* C7 as stated: against a bus that answers every call with 0 and a read of 7
\* with seven 0x00, S68W0 0P then S68W0R7 (with or without line ends) print
\* "00 00 00 00 00 00 00\r\n".
C7_Original ==
  ((Ran("S68W0 0P,S68W0R7") \/ Ran("S68W0 0P,S68W0R7+LF") \/ Ran("S68W0 0P+LF,S68W0R7+LF"))
     /\ ZeroBank(bus)
     /\ (Count(bus, "requestFrom") = 1 => Received(bus) = Fill(0, 7)))
    => out = Zeros22

\* C7 amended: the read is issued by the character after the 7, so with a line
\* end after S68W0R7 the protocol output is "00 00 00 00 00 00 00 \r\n", every
\* pair followed by a space (23 characters); without one nothing is printed.
C7_EndToEnd ==
  /\ ((Ran("S68W0 0P,S68W0R7+LF") \/ Ran("S68W0 0P+LF,S68W0R7+LF"))
        /\ ZeroBank(bus) /\ Received(bus) = Fill(0, 7))
       => out = Zeros23
  /\ (Ran("S68W0 0P,S68W0R7") /\ ZeroBank(bus))
       => out = <<>> /\ Count(bus, "requestFrom") = 0 /\ state = ST_CMDR

C7_Witness ==
  /\ Ran("S68W0 0P+LF,S68W0R7+LF")
  /\ ZeroBank(bus) /\ Received(bus) = Fill(0, 7)
  /\ out = Zeros23

\* ------------------------------------------------------------ C8
HexChars == <<48, 49, 50, 51, 52, 53, 54, 55, 56, 57, 65, 66, 67, 68, 69, 70>>
HexOf(b) == <<HexChars[(b \div 16) + 1], HexChars[(b % 16) + 1]>>
RECURSIVE Dump(_)
Dump(bs) == IF bs = <<>> THEN <<>> ELSE HexOf(Head(bs)) \o <<32>> \o Dump(Tail(bs))
HelpIfAsked == IF l = ch_QM THEN print_help ELSE <<>>

\* C8 as stated: the loop() that issues a read and drains N bytes writes
\* exactly the 3N+2 characters "XX " per byte and CR LF, and arms no filler.
C8_Original ==
  Count(calls, "requestFrom") = 1 =>
    /\ wrote = Dump(Received(calls)) \o <<13, 10>>
    /\ Len(wrote) = 3 * Len(Received(calls)) + 2
    /\ to_print = 0

\* C8 amended: those 3N+2 characters are written, in bus order, upper case,
\* high nibble first, and no filler is armed; they are all the loop() writes
\* when requestFrom returned 0 and the character that triggered the read is
\* not '?'. After a failed requestFrom the token R!xx LF comes before them,
\* and a triggering '?' puts the help text after them.
C8_ReadFormat ==
  Count(calls, "requestFrom") = 1 =>
    /\ calls[1].op = "requestFrom"
    /\ wrote = (IF calls[1].st = 0 THEN <<>> ELSE <<82, 33>> \o HexOf(calls[1].st) \o <<10>>)
               \o Dump(Received(calls)) \o <<13, 10>> \o HelpIfAsked
    /\ (calls[1].st = 0 /\ l # ch_QM) => Len(wrote) = 3 * Len(Received(calls)) + 2
    /\ to_print = 0

C8_Witness ==
  /\ Count(calls, "requestFrom") = 1 /\ calls[1].st = 0
  /\ Received(calls) = <<165, 0>>
  /\ wrote = <<65, 53, 32, 48, 48, 32, 13, 10>>
  /\ to_print = 0

\* ------------------------------------------------------------ C9
IsEnd(k) == k.op = "endTransmission"
EndStatus == SelectSeq(calls, IsEnd)[1].st

\* C9 as stated: a closing endTransmission() that returns s # 0 prints
\* "W!", the two hex digits of s and CR LF, and disarms the filler; one that
\* returns 0 prints nothing.
C9_Original ==
  (Count(calls, "endTransmission") = 1 /\ l # ch_QM) =>
    /\ EndStatus # 0 => wrote = <<87, 33>> \o HexOf(EndStatus) \o <<13, 10>> /\ to_print = 0
    /\ EndStatus = 0 => wrote = <<>>

\* C9 amended: the token ends with LF alone: "W!", the two upper-case hex
\* digits of s, "\n" (s = 2: "W!02\n"); the filler is disarmed; a status of 0
\* prints nothing and leaves the filler armed. (A closing '?' adds the help
\* text it asks for, after the token.)
C9_WriteError ==
  Count(calls, "endTransmission") = 1 =>
    /\ EndStatus # 0 =>
         wrote = <<87, 33>> \o HexOf(EndStatus) \o <<10>> \o HelpIfAsked /\ to_print = 0
    /\ EndStatus = 0 =>
         /\ wrote = HelpIfAsked
         /\ to_print = (IF l = ch_QM THEN 0 ELSE IF l = ch_CR \/ l = ch_LF THEN 13 ELSE 32)

C9_Witness ==
  /\ Count(calls, "endTransmission") = 1 /\ EndStatus = 2
  /\ wrote = <<87, 33, 48, 50, 10>>
  /\ to_print = 0 /\ state = ST_CMD

\* ------------------------------------------------------------ C10
\* C10: bus faults do not steer the parser. A run whose send, endTransmission
\* and requestFrom return statuses of the bus's choice goes, character by
\* character, through the same case labels, parser states and addresses as
\* the run of the same input in which they all return 0, and makes the same
\* bus calls with the same arguments; the loop() in which endTransmission or
\* requestFrom fails still ends in case ST_CMD, which leaves the state the
\* character read asks for from ST_CMD. Only what is written may differ.
Failed(k) == (k.op = "endTransmission" \/ k.op = "requestFrom") /\ k.st # 0
Faulty(b) == \E i \in 1..Len(b) : Failed(b[i])
C10_FaultsDoNotSteer ==
  /\ state = shadow.state /\ addr = shadow.addr /\ path = shadow.path
  /\ data = shadow.data /\ digits = shadow.digits /\ open = shadow.open
  /\ Cmds(calls) = Cmds(shadow.calls)
  /\ Received(calls) = Received(shadow.calls)
  /\ ~Faulty(calls)
  /\ Faulty(shadow.calls) =>
       /\ shadow.path[Len(shadow.path)] = ST_CMD
       /\ shadow.state = parse_cmd(Reset, to_upper(l)).state

\* an R closes a write whose endTransmission fails in the second run only:
\* both runs are in ST_CMDR, the second has written W!02
C10_Witness ==
  /\ l = ch_R /\ state = ST_CMDR /\ shadow.state = ST_CMDR
  /\ Cmds(calls) = <<End>> /\ calls[1].st = 0
  /\ Cmds(shadow.calls) = <<End>> /\ shadow.calls[1].st = 2
  /\ wrote = <<>> /\ shadow.wrote = print_hex(<<ch_W, ch_bang>>, 2, <<ch_LF>>)

\* ------------------------------------------------------------ C11
EndsOk(b) == \A j \in 1..Len(b) : b[j].op = "endTransmission" => b[j].st = 0
ReadOk(k, n) == k.op = "requestFrom" /\ k.y = n /\ k.st = 0

\* C11 as stated: after a requestFrom(addr, 7) that returns 0 the output holds
\* exactly 7 hex pairs, however many bytes available() reports when the drain
\* starts.
C11_Original ==
  \A i \in 1..Len(bus) :
    (ReadOk(bus[i], 7) /\ EndsOk(bus))
      => Len(Received(bus)) = 7 /\ out = Dump(Received(bus)) \o <<13, 10>>

\* C11 amended: the drain runs once, inside the loop() that called requestFrom:
\* it prints one pair for every byte available() reports at that moment (at
\* most the count asked for, possibly fewer), ends the line and leaves ST_RECV.
\* No later loop() calls receive(), so bytes that show up later are not printed.
C11_DrainsOnce ==
  \A i \in 1..Len(bus) :
    (bus[i].op = "requestFrom" /\ bus[i].st = 0 /\ EndsOk(bus))
      => /\ Len(Received(bus)) <= bus[i].y
         /\ out = Dump(Received(bus)) \o <<13, 10>>
         /\ \A j \in 1..Len(bus) : bus[j].op = "receive" => j > i
         /\ Len(calls) \in {0, Len(bus) - i + 1}
         /\ state # ST_RECV

\* 7 bytes asked at 0x68, 3 available: three pairs and the line end, and a
\* later loop() with nothing to read adds nothing
C11_Witness ==
  /\ Ran("S68W0R7+LF") /\ l = 0
  /\ \E i \in 1..Len(bus) : ReadOk(bus[i], 7) /\ bus[i].x = 104
  /\ EndsOk(bus)
  /\ Received(bus) = Fill(165, 3)
  /\ out = <<65, 53, 32, 65, 53, 32, 65, 53, 32, 13, 10>>
  /\ state = ST_CMD

\* ------------------------------------------------------------ C12
Addressed(k) == k.op = "beginTransmission" \/ k.op = "requestFrom"

\* C12 as stated: addr is a 7-bit value in every reachable state, and every
\* address passed to beginTransmission or requestFrom is in 0..127, whatever
\* digits follow S.
C12_Original ==
  /\ addr >= 0 /\ addr <= 127
  /\ \A i \in 1..Len(calls) : Addressed(calls[i]) => calls[i].x >= 0 /\ calls[i].x <= 127

\* S, A, A, W: ST_ADDR shifts both digits into the unsigned char and W begins
\* a transmission at 0xAA
C12_Witness ==
  /\ l = ch_W /\ addr = 170
  /\ Cmds(calls) = <<Begin(170)>>
  /\ state = ST_CMDW

\* ------------------------------------------------------------ C13
Crossed == path # <<>> /\ path[Len(path)] = ST_CMD     \* the loop() ended in parse_cmd
Flushed == calls # <<>> /\ calls[Len(calls)].op = "send" \* the loop() ended after a send

\* C13 as stated: digits never exceeds 2, and data and digits are 0 after a
\* flush and after parse_cmd.
C13_Original ==
  /\ digits <= 2
  /\ (Crossed \/ Flushed) => data = 0 /\ digits = 0

\* C13 amended: between two loop()s digits is 0 or 1 in ST_CMDW (the second
\* digit sends the byte in the same loop()) and 0 in ST_CMD and ST_ADDR; in
\* ST_CMDR nothing caps it: every further hex digit adds one modulo 256 (3
\* after R555) and shifts into data modulo 256. data and digits are 0 after a flush and
\* after parse_cmd.
C13_Accumulator ==
  /\ [](/\ state = ST_CMDW => digits \in {0, 1}
        /\ state \in {ST_CMD, ST_ADDR} => digits = 0 /\ data = 0
        /\ state = ST_CMDR => digits <= MaxDigits
        /\ (Crossed \/ Flushed) => data = 0 /\ digits = 0)
  /\ [][(avail' < avail /\ state = ST_CMDR /\ IsHexRaw(l'))
          => /\ state' = ST_CMDR /\ calls' = <<>>
             /\ digits' = (digits + 1) % Byte
             /\ data' = read_hex(data, to_upper(l'))[2]]_vars

\* R, 5, 5, 5: three digits counted, data = 0x55, nothing requested yet
C13_Witness ==
  /\ state = ST_CMDR /\ digits = 3 /\ data = 85 /\ l = 53 /\ calls = <<>>

\* ------------------------------------------------------------ C14
\* C14: when a loop() that read a character l returns, to_print is armed
\* (nonzero) if and only if that loop() wrote nothing (no help text, no W! or
\* R! token, no read line); armed, it is CR when l was CR or LF and a space
\* otherwise.
C14_Arming ==
  l # 0 =>
    /\ (to_print # 0) <=> (wrote = <<>>)
    /\ to_print # 0 => to_print = (IF l = ch_CR \/ l = ch_LF THEN ch_CR ELSE ch_SP)

\* a line feed ends a write whose endTransmission returns 0: nothing is
\* written and the filler is CR
C14_Witness ==
  /\ l = ch_LF /\ path = <<ST_CMDW, ST_CMD>>
  /\ Cmds(calls) = <<End>> /\ calls[1].st = 0
  /\ wrote = <<>> /\ to_print = ch_CR

\* ------------------------------------------------------------ C15
\* C15 as stated: as long as loop() keeps being called, every character read
\* is followed by a written byte, in its own loop() or a later one.
C15_Original == (l # 0) ~> (wrote # <<>>)

\* C15 amended: the filler is written only by a loop() that finds nothing to
\* read and to_print armed; that loop() writes that one byte and disarms
\* to_print, so the next such loop() writes nothing (one filler at most for
\* each character read). A character whose loop() wrote nothing is followed by
\* the filler unless another character is waiting when loop() is next called:
\* as long as characters keep coming, nothing is written for it.
C15_KeepAlive ==
  /\ [](l = 0 => to_print = 0 /\ calls = <<>> /\ Len(wrote) <= 1)
  /\ [][(l' = 0 /\ avail' = avail)
          => /\ avail = 0
             /\ wrote' = (IF to_print # 0 THEN <<to_print>> ELSE <<>>)
             /\ to_print' = 0]_vars
  /\ [][(l = 0 /\ l' = 0 /\ avail' = avail) => wrote' = <<>>]_vars
  /\ (l # 0 /\ wrote = <<>>) ~> (wrote # <<>> \/ avail > 0)

\* after a line feed that wrote nothing, the loop() that found nothing to read
\* has written the CR filler and disarmed it
C15_Witness ==
  /\ l = 0 /\ avail = 0 /\ wrote = <<ch_CR>> /\ to_print = 0 /\ state = ST_CMDR

\* ------------------------------------------------------------ C16
IsHexDigit(ch) == (ch >= 48 /\ ch <= 57) \/ (ch >= 65 /\ ch <= 70) \/ (ch >= 97 /\ ch <= 102)
HexValue(ch) == IF ch <= 57 THEN ch - 48 ELSE IF ch <= 70 THEN ch - 55 ELSE ch - 87

\* C16 as stated: read_hex accepts exactly 0-9, A-F and a-f and shifts their
\* value 0..15 into the accumulator; for every other character, g..z among
\* them, it returns 0 and leaves the accumulator as it was.
C16_Original ==
  [][(avail = 1 /\ avail' = 0)
       => IF IsHexDigit(l)
          THEN ret' = 1 /\ data' = (data * 16 + HexValue(l)) % Byte
          ELSE ret' = 0 /\ data' = data]_vars

\* read_hex(&data, 'g') with data = 0: returns 1 and data = 16
C16_Witness ==
  /\ avail = 0 /\ l = 103 /\ ret = 1 /\ data = 16

\* ------------------------------------------------------------ C17
\* C17: when loop() has returned, a transmission is open (beginTransmission
\* called and endTransmission not yet) if and only if state is ST_CMDW, and
\* state is never ST_RECV: ST_RECV is set and left inside the loop() that
\* calls requestFrom.
C17_OpenIffWriting ==
  /\ open <=> state = ST_CMDW
  /\ state # ST_RECV
  /\ (\E i \in 1..Len(path) : path[i] = ST_RECV) => Count(calls, "requestFrom") = 1

\* R, 5, W: the W issues the read, passes through ST_RECV and ST_CMD and
\* begins a write, all in one loop()
C17_Witness ==
  /\ l = ch_W /\ path = <<ST_CMDR, ST_RECV, ST_CMD>>
  /\ Cmds(calls) = <<Request(0, 5), Begin(0)>>
  /\ state = ST_CMDW /\ open

\* ------------------------------------------------------------ C18
\* C18: a loop() changes addr only when the character read is S or s (addr
\* becomes 0, whatever the state) or when state is ST_ADDR and the character
\* is a hex digit (shifted in) or P (addr becomes 0, state stays ST_ADDR).
\* Every other loop() leaves addr as it was, and every beginTransmission and
\* requestFrom is called with the addr the loop() started with.
C18_AddrFrame ==
  /\ [][avail' < avail
          => /\ IF to_upper(l') = ch_S THEN addr' = 0
                ELSE IF state = ST_ADDR /\ IsHexDigit(l')
                  THEN addr' = (addr * 16 + HexValue(l')) % Byte
                ELSE IF state = ST_ADDR /\ to_upper(l') = ch_P
                  THEN addr' = 0 /\ state' = ST_ADDR
                ELSE addr' = addr
             /\ \A i \in 1..Len(calls') : Addressed(calls'[i]) => calls'[i].x = addr]_vars
  /\ [][avail' >= avail => addr' = addr]_vars

\* S55 R5 S: the S issues the read at 0x55, the address S55 set, and only
\* then resets addr
C18_Witness ==
  /\ l = ch_S /\ Cmds(calls) = <<Request(85, 5)>>
  /\ addr = 0 /\ state = ST_ADDR

\* ------------------------------------------------------------ C19
\* a count digit has arrived since the R: digits counts it, or it is in data
HasDigit == digits # 0 \/ data # 0

\* C19 as stated: in ST_CMDR a hex digit makes no bus call; the first non-hex
\* character after at least one digit calls requestFrom(addr, data) once; a
\* space or line feed before any digit changes nothing; any other character
\* before any digit makes no requestFrom and is dispatched from ST_CMD.
C19_Original ==
  [][(avail' < avail /\ state = ST_CMDR)
       => IF IsHexDigit(l')
            THEN calls' = <<>> /\ state' = ST_CMDR
          ELSE IF HasDigit
            THEN /\ Count(calls', "requestFrom") = 1
                 /\ calls'[1].op = "requestFrom" /\ calls'[1].x = addr /\ calls'[1].y = data
                 /\ path' = <<ST_CMDR, ST_RECV, ST_CMD>>
          ELSE IF l' = ch_SP \/ l' = ch_LF
            THEN calls' = <<>> /\ state' = ST_CMDR /\ data' = 0 /\ digits' = 0
          ELSE /\ Count(calls', "requestFrom") = 0
               /\ path' = <<ST_CMDR, ST_CMD>>
               /\ state' = parse_cmd(Reset, to_upper(l')).state]_vars

\* R and 256 digits 5, then a space: digits has wrapped to 0, no requestFrom
\* is called and the parser waits in ST_CMDR with data = 0x55
C19_Witness ==
  /\ l = ch_SP /\ state = ST_CMDR
  /\ digits = 0 /\ data = 85
  /\ calls = <<>> /\ path = <<ST_CMDR>>

\* ------------------------------------------------------------ C20
\* the case labels one loop() can enter, in order
Paths ==
  { <<ST_CMD>>, <<ST_ADDR>>, <<ST_ADDR, ST_CMD>>, <<ST_CMDW>>, <<ST_CMDW, ST_CMD>>,
    <<ST_CMDR>>, <<ST_CMDR, ST_CMD>>, <<ST_CMDR, ST_RECV, ST_CMD>> }

\* C20: a loop() that reads takes exactly one character from SerialUSB, starts
\* in the case of the current state, enters case ST_CMD at most once and as
\* the last one, enters ST_ADDR, ST_CMDW and ST_CMDR only as the first one, and
\* returns with state ST_CMD, ST_ADDR, ST_CMDW or ST_CMDR (the drain ends when
\* the bus has handed out its bytes). A loop() that finds nothing to read
\* enters no case.
C20_BoundedRedispatch ==
  /\ [](/\ l # 0 => path \in Paths
        /\ l = 0 => path = <<>>
        /\ state \in {ST_CMD, ST_ADDR, ST_CMDW, ST_CMDR})
  /\ [][avail' < avail
          => /\ avail' = avail - 1
             /\ l' # 0 /\ path' # <<>> /\ path'[1] = state
             /\ Len(Received(calls')) <= MaxRx]_vars
  /\ [][avail' >= avail => state' = state]_vars

\* R, 5, ?: one loop() issues the read, drains it, ends the line and prints
\* the help, entering ST_CMDR, ST_RECV and ST_CMD once each
C20_Witness ==
  /\ l = ch_QM /\ path = <<ST_CMDR, ST_RECV, ST_CMD>>
  /\ Cmds(calls) = <<Request(0, 5)>> /\ Len(Received(calls)) = MaxRx
  /\ state = ST_CMD

====
